---- MODULE Spec2Model ----
(***************************************************************************)
(* Reconciliation and deduplication engine of the salary pipeline:         *)
(* scripts/merge_addendum.py (deduplicate_with_salary_resolution,          *)
(* match_key, compare_rows, merge_addendum) with normalize_text of         *)
(* scripts/clean_salary_data.py.                                           *)
(*                                                                         *)
(* A text value is a sequence of characters, each character a string       *)
(* token; a DataFrame is a sequence of rows; a missing cell (pandas NaN)   *)
(* is the value NaN for a text cell and NumNaN for a numeric cell.         *)
(***************************************************************************)
EXTENDS Integers, Sequences, FiniteSets, TLC

VARIABLES
    pc,                 \* position of the command-line run
    run,                \* number of merge runs completed
    salary_file,        \* rows of the CSV at salary_path
    addendum_exists,    \* addendum_path.exists()
    addendum_header,    \* header line of the addendum CSV: "none" (the file is
                        \* empty), "no_status" or "status"
    addendum_file,      \* rows of the CSV at addendum_path
    salary_missing,     \* the required column the salary CSV lacks, or ""
    addendum_missing,   \* the required column the addendum CSV lacks, or ""
    salary_dedup,       \* salary_df after line 117
    to_add,             \* line 164
    to_delete,          \* line 165
    to_change,          \* line 166
    skipped_changes,    \* line 193, at the end of the loop
    needed_changes,     \* line 194, at the end of the loop
    changes_metadata,   \* line 173
    merged_file,        \* rows of merged_salary_<year>_uncleaned.csv
    merged_written,     \* the merged CSV has been written by this run
    df_in,              \* argument of deduplicate_with_salary_resolution
    df_out,             \* its returned frame
    df_stats,           \* its returned report
    df_raised,          \* the call raised an exception
    df_out2,            \* the frame returned for df_out as argument
    dd,                 \* number of dedupe calls made on df_in
    tie_order,          \* how sort_values orders rows of equal total_comp
    script,             \* the script whose dedupe function is called
    report,             \* what validate_merge found (validate_merge.py)
    exit_status,        \* exit status of the validate_merge.py process, -1
                        \* while it has not ended
    salary_years,       \* years that have a blob raw/salaries/sunshine_salaries_<year>.csv
    addendum_years,     \* years that have a blob raw/addendums/sunshine_addendums_<year>.csv
    bucket_merged,      \* years that have a blob merged/merged_salary_<year>_uncleaned.csv
    uploaded,           \* years whose merged blob this driver run uploaded
    merge_result,       \* per year: "ok" or "raise", what merge_addendum does
    validation_result,  \* per year: "pass", "fail" or "raise", what
                        \* validate_merge does
    gcs_pc,             \* position of the merge_addendum_gcs.py process
    gcs_year,           \* index in matched_years of its loop
    output_dir,         \* years whose merged CSV is in a local output_dir
    val_pc,             \* position of the validate_merge_gcs.py process
    merged_files,       \* line 31, the part the loop has not reached yet
    failed_validations, \* line 32
    val_exit,           \* exit status of the validate_merge_gcs.py process,
                        \* -1 while it has not ended
    text_pc,            \* position of the calls on texts and rows
    text_in,            \* argument of normalize_text
    text_out,           \* normalize_text(text_in)
    text_out2,          \* normalize_text(text_out)
    key_rows,           \* two rows given to match_key
    key_out,            \* their keys
    local_runs,         \* number of merge_addendum_local.py runs into --output
    side_files,         \* per file of the output directory: the run that
                        \* wrote it, 0 while the file does not exist
    local_last          \* what the last merge_addendum_local.py run did

mergeVars == <<pc, run, salary_file, addendum_exists, addendum_header,
               addendum_file, salary_missing, addendum_missing, salary_dedup, to_add, to_delete, to_change,
               skipped_changes, needed_changes, changes_metadata, merged_file,
               merged_written>>

dedupeVars == <<df_in, df_out, df_stats, df_raised, df_out2, dd, tie_order, script>>

validateVars == <<report, exit_status>>

cloudVars == <<salary_years, addendum_years, bucket_merged, uploaded, merge_result, validation_result, gcs_pc,
               gcs_year, output_dir, val_pc, merged_files, failed_validations,
               val_exit>>

textVars == <<text_pc, text_in, text_out, text_out2, key_rows, key_out>>

localVars == <<local_runs, side_files, local_last>>

vars == <<mergeVars, dedupeVars, validateVars, cloudVars, textVars, localVars>>

(***************************************************************************)
(* Text                                                                    *)
(***************************************************************************)

\* pandas NaN in a text column (read_csv with na_values=[''])
NaN == <<"NaN">>

\* characters matched by \s and removed by str.strip()
Whitespace == {" ", "TAB"}

\* characters for which str.isprintable() is False
NonPrintable == {"TAB", "NUL"}

\* str(x): the text itself, and "nan" for the missing value
Str(x) == IF x = NaN THEN <<"n", "a", "n">> ELSE x

RECURSIVE LStrip(_)
LStrip(t) ==
    IF t = <<>> THEN <<>>
    ELSE IF Head(t) \in Whitespace THEN LStrip(Tail(t)) ELSE t

RECURSIVE RStrip(_)
RStrip(t) ==
    IF t = <<>> THEN <<>>
    ELSE IF t[Len(t)] \in Whitespace THEN RStrip(SubSeq(t, 1, Len(t) - 1)) ELSE t

\* str.strip()
Strip(t) == RStrip(LStrip(t))

\* re.sub(r'\s+', ' ', text)
RECURSIVE CollapseSpaces(_)
CollapseSpaces(t) ==
    IF t = <<>> THEN <<>>
    ELSE IF Head(t) \in Whitespace
         THEN <<" ">> \o CollapseSpaces(LStrip(t))
         ELSE <<Head(t)>> \o CollapseSpaces(Tail(t))

\* the four str.replace calls of lines 200-201
ReplaceChar(c) ==
    IF c \in {"LSQUO", "RSQUO"} THEN "'"
    ELSE IF c \in {"NDASH", "MDASH"} THEN "-"
    ELSE c

RECURSIVE ReplaceSpecial(_)
ReplaceSpecial(t) ==
    IF t = <<>> THEN <<>> ELSE <<ReplaceChar(Head(t))>> \o ReplaceSpecial(Tail(t))

\* ''.join(char for char in text if char.isprintable())
RECURSIVE RemoveNonPrintable(_)
RemoveNonPrintable(t) ==
    IF t = <<>> THEN <<>>
    ELSE (IF Head(t) \in NonPrintable THEN <<>> ELSE <<Head(t)>>)
         \o RemoveNonPrintable(Tail(t))

\* text.replace('"', '""')
RECURSIVE DoubleQuotes(_)
DoubleQuotes(t) ==
    IF t = <<>> THEN <<>>
    ELSE (IF Head(t) = "\"" THEN <<"\"", "\"">> ELSE <<Head(t)>>)
         \o DoubleQuotes(Tail(t))

normalize_text(text) ==
    IF text = NaN THEN text
    ELSE DoubleQuotes(RemoveNonPrintable(ReplaceSpecial(CollapseSpaces(Strip(text)))))

(***************************************************************************)
(* Rows                                                                    *)
(***************************************************************************)

\* a numeric cell: a number, the missing value, or text that is no number
Num(n) == [t |-> "num", v |-> n]
NumNaN == [t |-> "nan", v |-> 0]
NumBad == [t |-> "str", v |-> 0]

\* pd.to_numeric(x, errors='coerce').fillna(0)
to_numeric_fillna0(x) == IF x.t = "num" THEN x.v ELSE 0

\* Python's == on two cells: NaN equals nothing, itself included
TextEq(x, y) == x # NaN /\ x = y
NumEq(x, y) == x.t # "nan" /\ x = y

group_cols(r) ==
    <<r.sector, r.first_name, r.last_name, r.employer, r.job_title, r.calendar_year>>

\* a row that groupby(group_cols) leaves out: dropna=True is the default
HasNaGroupCol(r) ==
    \/ r.sector = NaN
    \/ r.first_name = NaN
    \/ r.last_name = NaN
    \/ r.employer = NaN
    \/ r.job_title = NaN

total_comp(r) == to_numeric_fillna0(r.salary_paid) + to_numeric_fillna0(r.taxable_benefits)

\* row.get(col, default)
get(row, col, default) == IF col \in DOMAIN row THEN row[col] ELSE default

\* the default of the four text fields is the empty string; every row has
\* a calendar_year
match_key(row) ==
    <<normalize_text(Str(get(row, "first_name", <<>>))),
      normalize_text(Str(get(row, "last_name", <<>>))),
      normalize_text(Str(get(row, "employer", <<>>))),
      normalize_text(Str(get(row, "job_title", <<>>))),
      row.calendar_year>>

compare_rows(row1, row2) ==
    /\ TextEq(row1.first_name, row2.first_name)
    /\ TextEq(row1.last_name, row2.last_name)
    /\ TextEq(row1.employer, row2.employer)
    /\ TextEq(row1.job_title, row2.job_title)
    /\ row1.calendar_year = row2.calendar_year
    /\ NumEq(row1.salary_paid, row2.salary_paid)
    /\ NumEq(row1.taxable_benefits, row2.taxable_benefits)

(***************************************************************************)
(* DataFrames                                                              *)
(***************************************************************************)

Rows(df) == {df[i] : i \in 1..Len(df)}

RECURSIVE KeepIdx(_, _, _)
KeepIdx(df, S, i) ==
    IF i > Len(df) THEN <<>>
    ELSE (IF i \in S THEN <<df[i]>> ELSE <<>>) \o KeepIdx(df, S, i + 1)

\* df[mask]
Filter(df, S) == KeepIdx(df, S, 1)

\* df.drop_duplicates(): the first of the rows equal in every column is kept
drop_duplicates(df) ==
    Filter(df, {i \in 1..Len(df) : \A j \in 1..(i - 1) : df[j] # df[i]})

\* a subset de-duplication that drops only the first row repeating the
\* grouping fields of an earlier one; C5 fails when it stands in for
\* drop_duplicates_subset
drop_first_repeat(df) ==
    LET repeats == {i \in 1..Len(df) :
                       \E j \in 1..(i - 1) : group_cols(df[j]) = group_cols(df[i])}
    IN  IF repeats = {} THEN df
        ELSE Filter(df, (1..Len(df)) \ {CHOOSE i \in repeats : \A k \in repeats : i <= k})

\* df.drop_duplicates(subset=group_cols): NaN cells compare equal here
drop_duplicates_subset(df) ==
    Filter(df, {i \in 1..Len(df) :
                  \A j \in 1..(i - 1) : group_cols(df[j]) # group_cols(df[i])})

\* df.groupby(group_cols).size() restricted to count > 1
duplicated_groups(df) ==
    {group_cols(df[i]) : i \in {k \in 1..Len(df) :
        /\ ~HasNaGroupCol(df[k])
        /\ \E j \in 1..Len(df) : j # k /\ group_cols(df[j]) = group_cols(df[k])}}

\* df.sort_values('total_comp', ascending=False): the default kind is
\* quicksort, which is not stable.  The order of rows of equal total_comp is
\* a function of the frame that the sort routine of the installation fixes:
\* tie_order says whether it leaves such rows as they were or reverses them.
sort_values(df) ==
    LET n == Len(df)
        before(j, i) ==
            \/ total_comp(df[j]) > total_comp(df[i])
            \/ /\ total_comp(df[j]) = total_comp(df[i])
               /\ IF tie_order = "first" THEN j < i ELSE j > i
        rank(i) == Cardinality({j \in 1..n : before(j, i)}) + 1
    IN  [k \in 1..n |-> df[CHOOSE i \in 1..n : rank(i) = k]]

\* a dedupe that removes exact duplicates only
dedupe_exact_only(df) ==
    [df |-> drop_duplicates(df),
     stats |-> [exact_duplicates_removed |-> Len(df) - Len(drop_duplicates(df)),
                non_exact_duplicates_resolved |-> 0]]

deduplicate_with_salary_resolution(df) ==
    LET d1 == drop_duplicates(df)
        exact_dupes == Len(df) - Len(d1)
        dg == duplicated_groups(d1)
    IN  IF dg # {}
        THEN [df |-> drop_duplicates_subset(sort_values(d1)),
              stats |-> [exact_duplicates_removed |-> exact_dupes,
                         non_exact_duplicates_resolved |-> Cardinality(dg)]]
        ELSE [df |-> d1,
              stats |-> [exact_duplicates_removed |-> exact_dupes,
                         non_exact_duplicates_resolved |-> 0]]

(***************************************************************************)
(* deduplicate_with_salary_resolution of merge_addendum_local.py           *)
(***************************************************************************)

group_cols_local(r) ==
    <<r.first_name, r.last_name, r.employer, r.job_title, r.calendar_year>>

HasNaGroupColLocal(r) ==
    \/ r.first_name = NaN
    \/ r.last_name = NaN
    \/ r.employer = NaN
    \/ r.job_title = NaN

\* df['salary_paid'] + df['taxable_benefits'].fillna(0): a missing salary
\* makes the sum missing
total_comp_local(r) ==
    IF r.salary_paid.t = "nan" THEN NumNaN
    ELSE Num(r.salary_paid.v
             + (IF r.taxable_benefits.t = "nan" THEN 0 ELSE r.taxable_benefits.v))

\* a column in which read_csv found text that is no number has dtype object:
\* its numbers are kept as the text of the file, its empty cells are NaN
is_object_col(df, col) == \E i \in 1..Len(df) : df[i][col].t = "str"

cell_is_str(df, i, col) == is_object_col(df, col) /\ df[i][col].t # "nan"

\* str + number raises TypeError
add_raises_local(df) ==
    \E i \in 1..Len(df) :
        cell_is_str(df, i, "salary_paid") # cell_is_str(df, i, "taxable_benefits")

\* the place of a one-character cell text in the order of str: the digits,
\* then the text that is no number
CharRank(cell) == IF cell.t = "str" THEN 10 ELSE cell.v

\* row i of df['salary_paid'] + df['taxable_benefits'].fillna(0): str + str
\* concatenates
total_comp_col_local(df, i) ==
    IF cell_is_str(df, i, "salary_paid")
    THEN [t |-> "str",
          v |-> 11 * CharRank(df[i].salary_paid) + CharRank(df[i].taxable_benefits)]
    ELSE total_comp_local(df[i])

drop_duplicates_subset_local(df) ==
    Filter(df, {i \in 1..Len(df) :
                  \A j \in 1..(i - 1) : group_cols_local(df[j]) # group_cols_local(df[i])})

duplicated_groups_local(df) ==
    {group_cols_local(df[i]) : i \in {k \in 1..Len(df) :
        /\ ~HasNaGroupColLocal(df[k])
        /\ \E j \in 1..Len(df) :
              j # k /\ group_cols_local(df[j]) = group_cols_local(df[k])}}

\* sort_values('total_comp', ascending=False): rows whose total_comp is
\* missing go last (na_position='last'), in the order they had
sort_values_local(df) ==
    LET n == Len(df)
        tc(i) == total_comp_col_local(df, i)
        before(j, i) ==
            \/ tc(j).t # "nan" /\ tc(i).t = "nan"
            \/ tc(j).t = "nan" /\ tc(i).t = "nan" /\ j < i
            \/ tc(j).t # "nan" /\ tc(i).t # "nan" /\ tc(j).v > tc(i).v
            \/ /\ tc(j).t # "nan" /\ tc(i).t # "nan" /\ tc(j).v = tc(i).v
               /\ IF tie_order = "first" THEN j < i ELSE j > i
        rank(i) == Cardinality({j \in 1..n : before(j, i)}) + 1
    IN  [k \in 1..n |-> df[CHOOSE i \in 1..n : rank(i) = k]]

deduplicate_with_salary_resolution_local(df) ==
    LET d1 == drop_duplicates(df)
        exact_dupes == Len(df) - Len(d1)
        dg == duplicated_groups_local(d1)
    IN  IF dg # {}
        THEN IF add_raises_local(d1)
             THEN [raised |-> TRUE, df |-> <<>>,
                   stats |-> [exact_duplicates_removed |-> 0,
                              non_exact_duplicates_resolved |-> 0]]
             ELSE [raised |-> FALSE,
                   df |-> drop_duplicates_subset_local(sort_values_local(d1)),
                   stats |-> [exact_duplicates_removed |-> exact_dupes,
                              non_exact_duplicates_resolved |-> Cardinality(dg)]]
        ELSE [raised |-> FALSE, df |-> d1,
              stats |-> [exact_duplicates_removed |-> exact_dupes,
                         non_exact_duplicates_resolved |-> 0]]

(***************************************************************************)
(* Status vocabulary                                                       *)
(***************************************************************************)

UpperCase == <<"A", "B", "C", "D", "E", "F", "G", "H", "I", "J", "K", "L", "M", "N", "O", "P", "Q", "R", "S", "T", "U", "V", "W", "X", "Y", "Z">>
LowerCase == <<"a", "b", "c", "d", "e", "f", "g", "h", "i", "j", "k", "l", "m", "n", "o", "p", "q", "r", "s", "t", "u", "v", "w", "x", "y", "z">>

ToLower ==
    [c \in {UpperCase[i] : i \in 1..Len(UpperCase)} |->
        LowerCase[CHOOSE i \in 1..Len(UpperCase) : UpperCase[i] = c]]

\* str.lower() of one character
LowerChar(c) == IF c \in DOMAIN ToLower THEN ToLower[c] ELSE c

\* str.lower()
RECURSIVE Lower(_)
Lower(t) == IF t = <<>> THEN <<>> ELSE <<LowerChar(Head(t))>> \o Lower(Tail(t))

Addition == <<"a", "d", "d", "i", "t", "i", "o", "n">>
Changed == <<"c", "h", "a", "n", "g", "e", "d">>
Deletion == <<"d", "e", "l", "e", "t", "i", "o", "n">>

\* the value a Python function returns when it falls off its end
None == <<"None">>

get_status_mapping ==
    [addition |->
        {<<"a", "d", "d", "e", "d">>,
         <<"a", "d", "d">>,
         <<"a", "d", "d", "e", "d", " ">>,
         <<"a", "d", "d", " ">>,
         <<"a", "d", "d", "i", "t", "i", "o", "n">>,
         <<"a", "d", "d", "i", "t", "i", "o", "n", " ">>},
     changed |->
        {<<"c", "h", "a", "n", "g", "e", "d">>,
         <<"c", "h", "a", "n", "g", "e">>,
         <<"c", "h", "a", "n", "g", "e", "d", " ">>,
         <<"c", "h", "a", "n", "g", "e", " ">>,
         <<"p", "r", "o", "m", "o", "t", "i", "o", "n">>,
         <<"p", "o", "s", "i", "t", "i", "o", "n", " ", "c", "h", "a", "n", "g", "e">>,
         <<"s", "a", "l", "a", "r", "y", " ", "c", "h", "a", "n", "g", "e">>},
     deletion |->
        {<<"d", "e", "l", "e", "t", "i", "o", "n">>,
         <<"d", "e", "l", "e", "t", "e">>,
         <<"d", "e", "l", "e", "t", "e", "d">>,
         <<"d", "e", "l", "e", "t", "e", " ">>,
         <<"d", "e", "l", "e", "t", "e", "d", " ">>}]

\* [syn.strip().lower() for syn in synonyms], for each standard status
normalized_synonyms ==
    [standard \in DOMAIN get_status_mapping |->
        {Lower(Strip(syn)) : syn \in get_status_mapping[standard]}]

normalize_status_col(status) ==
    IF status = NaN THEN status
    ELSE LET normalized_status == Lower(Strip(normalize_text(status)))
         IN  IF normalized_status \in normalized_synonyms["addition"] THEN Addition
             ELSE IF normalized_status \in normalized_synonyms["changed"] THEN Changed
             ELSE IF normalized_status \in normalized_synonyms["deletion"] THEN Deletion
             ELSE None

\* addendum_df[status_col].str.lower() == value: never true of NaN or None
StatusIs(row, value) ==
    row.status # NaN /\ row.status # None /\ Lower(row.status) = value


(***************************************************************************)
(* merge_addendum                                                          *)
(***************************************************************************)

TextCols == {"sector", "first_name", "last_name", "employer", "job_title", "status"}

\* an empty CSV field
Empty == <<>>

\* pd.read_csv(..., keep_default_na=False, na_values=['']): an empty field
\* is read as NaN
read_csv(file) ==
    [i \in 1..Len(file) |->
        [c \in DOMAIN file[i] |->
            IF c \in TextCols /\ file[i][c] = Empty THEN NaN ELSE file[i][c]]]

\* df.to_csv(path, index=False): NaN is written as an empty field
to_csv(df) ==
    [i \in 1..Len(df) |->
        [c \in DOMAIN df[i] |->
            IF c \in TextCols /\ df[i][c] = NaN THEN Empty ELSE df[i][c]]]

\* a null-drop that looks at the five text columns only
dropna_text_only(df) ==
    Filter(df, {i \in 1..Len(df) :
        /\ df[i].sector # NaN
        /\ df[i].first_name # NaN
        /\ df[i].last_name # NaN
        /\ df[i].employer # NaN
        /\ df[i].job_title # NaN})

\* addendum_df.dropna(subset=drop_cols_add)
dropna(df) ==
    Filter(df, {i \in 1..Len(df) :
        /\ df[i].sector # NaN
        /\ df[i].first_name # NaN
        /\ df[i].last_name # NaN
        /\ df[i].employer # NaN
        /\ df[i].job_title # NaN
        /\ df[i].salary_paid # NumNaN
        /\ df[i].taxable_benefits # NumNaN})

\* addendum_df['status'].apply(normalize_status_col)
apply_normalize_status(df) ==
    [i \in 1..Len(df) |-> [df[i] EXCEPT !.status = normalize_status_col(df[i].status)]]

\* addendum_df[addendum_df[status_col].str.lower() == value]
split_by_status(df, value) ==
    Filter(df, {i \in 1..Len(df) : StatusIs(df[i], value)})

\* salary_df.drop(columns=status_col) for one row
drop_status(row) ==
    [c \in (DOMAIN row) \ {"status"} |-> row[c]]

drop_status_col(df) == [i \in 1..Len(df) |-> drop_status(df[i])]

\* lines 182-185
apply_deletions(salary_df, to_del) ==
    LET delete_keys == {match_key(d) : d \in Rows(to_del)}
    IN  Filter(salary_df,
               {i \in 1..Len(salary_df) : match_key(salary_df[i]) \notin delete_keys})

\* a loop that leaves a change without a matching base row unclassified
RECURSIVE change_loop_unmatched_lost(_, _, _, _, _)
change_loop_unmatched_lost(to_chg, i, salary_df, skipped, needed) ==
    IF i > Len(to_chg)
    THEN [salary_df |-> salary_df, skipped_changes |-> skipped, needed_changes |-> needed]
    ELSE LET change_row == to_chg[i]
             matching_base_rows ==
                 {k \in 1..Len(salary_df) :
                     match_key(salary_df[k]) = match_key(change_row)}
         IN  IF matching_base_rows = {}
             THEN change_loop_unmatched_lost(to_chg, i + 1, salary_df, skipped, needed)
             ELSE IF \E k \in matching_base_rows : compare_rows(change_row, salary_df[k])
                  THEN change_loop_unmatched_lost(to_chg, i + 1, salary_df,
                                                  Append(skipped, change_row), needed)
                  ELSE change_loop_unmatched_lost(to_chg, i + 1,
                                                  Filter(salary_df,
                                                         (1..Len(salary_df)) \ matching_base_rows),
                                                  skipped, Append(needed, change_row))

\* lines 196-207: the loop over to_change from row i on
RECURSIVE change_loop(_, _, _, _, _)
change_loop(to_chg, i, salary_df, skipped, needed) ==
    IF i > Len(to_chg)
    THEN [salary_df |-> salary_df, skipped_changes |-> skipped, needed_changes |-> needed]
    ELSE LET change_row == to_chg[i]
             matching_base_rows ==
                 {k \in 1..Len(salary_df) :
                     match_key(salary_df[k]) = match_key(change_row)}
         IN  IF matching_base_rows # {}
             THEN IF \E k \in matching_base_rows : compare_rows(change_row, salary_df[k])
                  THEN change_loop(to_chg, i + 1, salary_df,
                                   Append(skipped, change_row), needed)
                  ELSE change_loop(to_chg, i + 1,
                                   Filter(salary_df,
                                          (1..Len(salary_df)) \ matching_base_rows),
                                   skipped, Append(needed, change_row))
             ELSE change_loop(to_chg, i + 1, salary_df, skipped,
                              Append(needed, change_row))

\* lines 191-218
apply_changes(salary_df, to_chg) ==
    LET r == change_loop(to_chg, 1, salary_df, <<>>, <<>>)
    IN  [r EXCEPT !.salary_df = r.salary_df \o r.needed_changes]

\* int(salary_df["calendar_year"].mode()[0]) raises on a frame with no rows
mode_year_raises(df) == Len(df) = 0

NoFrame == <<>>
NoMetadata == [total_changes_requested |-> 0, changes_skipped |-> 0, changes_applied |-> 0]

\* the two early returns of lines 122-129 and 151-158
pass_through(salary_df) ==
    [raised |-> mode_year_raises(salary_df),
     salary_dedup |-> salary_df,
     to_add |-> NoFrame, to_delete |-> NoFrame, to_change |-> NoFrame,
     skipped_changes |-> NoFrame, needed_changes |-> NoFrame,
     changes_metadata |-> NoMetadata,
     merged |-> salary_df]

\* lines 160-240
reconcile(salary_df, addendum_df0) ==
    LET addendum_df == apply_normalize_status(dropna(addendum_df0))
        add == split_by_status(addendum_df, Addition)
        del == split_by_status(addendum_df, Deletion)
        chg == split_by_status(addendum_df, Changed)
        after_del == apply_deletions(salary_df, del)
        after_chg == apply_changes(after_del, chg)
        concat == drop_status_col(after_chg.salary_df \o add)
        fin == deduplicate_with_salary_resolution(concat)
    IN  [raised |-> mode_year_raises(fin.df),
         salary_dedup |-> salary_df,
         to_add |-> add, to_delete |-> del, to_change |-> chg,
         skipped_changes |-> after_chg.skipped_changes,
         needed_changes |-> after_chg.needed_changes,
         changes_metadata |->
             [total_changes_requested |-> Len(chg),
              changes_skipped |-> Len(after_chg.skipped_changes),
              changes_applied |-> Len(after_chg.needed_changes)],
         merged |-> fin.df]

\* lines 131-240: the addendum file exists
\* pd.read_csv raises EmptyDataError on a file that has no header line
read_csv_raises(header) == header = "none"

\* an exception ends the run before anything is saved
raise(salary_df) ==
    [raised |-> TRUE,
     salary_dedup |-> salary_df,
     to_add |-> NoFrame, to_delete |-> NoFrame, to_change |-> NoFrame,
     skipped_changes |-> NoFrame, needed_changes |-> NoFrame,
     changes_metadata |-> NoMetadata,
     merged |-> NoFrame]

\* a status column whose cells are all empty is read as float64, and
\* addendum_df[status_col].str (line 164) raises AttributeError on it; the
\* columns of a file without rows are of dtype object
str_raises(df) == Len(df) > 0 /\ \A i \in 1..Len(df) : df[i].status = NaN

\* lines 131-240: the addendum file exists
merge_with_addendum(salary_df, header, addendum) ==
    LET addendum_df == deduplicate_with_salary_resolution(read_csv(addendum)).df
    IN  IF read_csv_raises(header)
        THEN raise(salary_df)
        ELSE IF header # "status"
             THEN pass_through(salary_df)
             ELSE IF str_raises(read_csv(addendum))
                  THEN raise(salary_df)
                  ELSE reconcile(salary_df, addendum_df)

merge_addendum(salary, exists, header, addendum) ==
    LET salary_df == deduplicate_with_salary_resolution(read_csv(salary)).df
    IN  IF ~exists
        THEN pass_through(salary_df)
        ELSE merge_with_addendum(salary_df, header, addendum)

\* the columns merge_addendum reads by name
GroupColNames ==
    {"sector", "first_name", "last_name", "employer", "job_title", "calendar_year"}
NumColNames == {"salary_paid", "taxable_benefits"}

\* merge_addendum on files of which one may lack a required column.  The
\* rows of a frame without salary_paid or taxable_benefits carry NaN there:
\* row.get gives None, which equals no value, and concat fills the column
\* with NaN.
\*   line 67, groupby(group_cols): KeyError for a missing grouping column
\*   lines 72-75: KeyError for a missing numeric column, reached only when
\*     a duplicated group exists
\*   line 145, dropna(subset=drop_cols_add): KeyError for a missing column
\*   line 232: the final dedupe meets the salary frame without the numeric
\*     column when no change and no addition was concatenated to it
merge_addendum_columns(salary, s_missing, exists, header, addendum, a_missing) ==
    LET salary_df == read_csv(salary)
        r == merge_addendum(salary, exists, header, addendum)
        final_in == drop_status_col(apply_deletions(r.salary_dedup, r.to_delete))
    IN  IF s_missing \in GroupColNames
        THEN raise(NoFrame)
        ELSE IF s_missing \in NumColNames
                /\ duplicated_groups(drop_duplicates(salary_df)) # {}
        THEN raise(NoFrame)
        ELSE IF exists /\ ~read_csv_raises(header) /\ a_missing # ""
        THEN raise(r.salary_dedup)
        ELSE IF /\ s_missing \in NumColNames
                /\ exists /\ header = "status"
                /\ Len(r.to_add) = 0 /\ Len(r.needed_changes) = 0
                /\ duplicated_groups(drop_duplicates(final_in)) # {}
        THEN raise(r.salary_dedup)
        ELSE r

(***************************************************************************)
(* Inputs                                                                  *)
(***************************************************************************)

MaxRows == 3
MaxSalary == 1
MaxBenefits == 2
MaxBase == 2
MaxAddendum == 2
MaxYears == 2
MaxValidateBase == 1
MaxLen == 3
MaxReconBase == 1
MaxReconAddendum == 2
MaxFrameBase == 3
MaxFrameAddendum == 1
MaxLocalRuns == 3

A == <<"a">>
A2 == <<"a", " ">>
B == <<"b">>
S1 == <<"s">>
S2 == <<"t">>

Row(sector, first_name, year, salary, benefits) ==
    [sector |-> sector, first_name |-> first_name, last_name |-> B,
     employer |-> B, job_title |-> B, calendar_year |-> year,
     salary_paid |-> salary, taxable_benefits |-> benefits]

AddendumRow(sector, first_name, year, salary, benefits, status) ==
    [sector |-> sector, first_name |-> first_name, last_name |-> B,
     employer |-> B, job_title |-> B, calendar_year |-> year,
     salary_paid |-> salary, taxable_benefits |-> benefits, status |-> status]

Salaries == {Num(n) : n \in 1..MaxSalary} \cup {NumNaN}
Benefits == {Num(0), Num(1)}
DedupeSalaries == {Num(1), NumNaN}
DedupeBenefits == {Num(n) : n \in 0..MaxBenefits}

SeqsUpTo(S, n) == UNION {[1..k -> S] : k \in 0..n}

DedupeRows ==
    {Row(s, A, 2023, sal, ben) : s \in {S1, NaN}, sal \in DedupeSalaries, ben \in DedupeBenefits}

\* <<sector, first_name>> of the rows of a salary file: an empty sector is
\* a missing one
BaseIds == {<<S1, A>>, <<S2, A>>, <<S1, B>>, <<Empty, A>>}

\* <<salary_paid, taxable_benefits>> of the rows of a salary file
BaseComps == {<<Num(1), Num(0)>>, <<Num(1), Num(1)>>, <<NumNaN, Num(1)>>}

BaseFileRows ==
    {Row(id[1], id[2], 2023, comp[1], comp[2]) : id \in BaseIds, comp \in BaseComps}

\* A and A2 share a MatchKey
AddendumIds == {<<S1, A>>, <<S2, A>>, <<S1, A2>>}

AddendumFileRows ==
    {AddendumRow(id[1], id[2], 2023, Num(n), ben, st) :
        id \in AddendumIds, n \in 1..MaxSalary, ben \in Benefits,
        st \in {Addition, Changed, Deletion}}
    \cup {AddendumRow(S1, A, 2023, Num(1), Num(0),
                      <<"D", "e", "l", "e", "t", "e", "d", " ">>),
          AddendumRow(S1, A, 2023, Num(1), Num(0), <<"x">>),
          AddendumRow(S1, A, 2023, NumNaN, Num(1), Addition)}

\* rows of an addendum file that has no status column
NoStatusFileRows ==
    {AddendumRow(S1, A, 2023, Num(1), Num(0), Empty)}

NoStats == [exact_duplicates_removed |-> 0, non_exact_duplicates_resolved |-> 0]
MergeIdle ==
    /\ pc = "idle"
    /\ run = 0
    /\ salary_file = NoFrame
    /\ addendum_exists = FALSE
    /\ addendum_header = "none"
    /\ addendum_file = NoFrame
    /\ salary_missing = ""
    /\ addendum_missing = ""
    /\ salary_dedup = NoFrame
    /\ to_add = NoFrame
    /\ to_delete = NoFrame
    /\ to_change = NoFrame
    /\ skipped_changes = NoFrame
    /\ needed_changes = NoFrame
    /\ changes_metadata = NoMetadata
    /\ merged_file = NoFrame
    /\ merged_written = FALSE

TieOrders == {"first", "last"}

DedupeIdle ==
    /\ df_in = NoFrame
    /\ df_out = NoFrame
    /\ df_stats = NoStats
    /\ df_raised = FALSE
    /\ df_out2 = NoFrame
    /\ dd = 0
    /\ tie_order \in TieOrders
    /\ script = "merge_addendum"

NoReport ==
    [raised |-> FALSE, deletions_still_exist |-> NoFrame,
     changes_in_merged |-> NoFrame, additions_missing |-> NoFrame,
     unexpected_status |-> NoFrame, duplicate_keys |-> NoFrame,
     changes_compared |-> FALSE, changes_differ |-> FALSE,
     has_errors |-> FALSE]

ValidateIdle ==
    /\ report = NoReport
    /\ exit_status = -1

\* the years a blob name can carry, in increasing order
all_years == [i \in 1..MaxYears |-> 2021 + i]

Years == {all_years[i] : i \in 1..MaxYears}

\* the years that have a salary blob, sorted
salary_years_only ==
    Filter(all_years, {i \in 1..MaxYears : all_years[i] \in salary_years})

\* the years that have both a salary and an addendum blob, sorted (line 300)
matched_years ==
    Filter(all_years, {i \in 1..MaxYears :
                          all_years[i] \in salary_years \cap addendum_years})

CloudIdle ==
    /\ salary_years = {}
    /\ addendum_years = {}
    /\ bucket_merged = {}
    /\ uploaded = {}
    /\ merge_result = [y \in Years |-> "ok"]
    /\ validation_result = [y \in Years |-> "pass"]
    /\ gcs_pc = "idle"
    /\ gcs_year = 1
    /\ output_dir = {}
    /\ val_pc = "idle"
    /\ merged_files = <<>>
    /\ failed_validations = <<>>
    /\ val_exit = -1

TextIdle ==
    /\ text_pc = "idle"
    /\ text_in = <<>>
    /\ text_out = <<>>
    /\ text_out2 = <<>>
    /\ key_rows = <<>>
    /\ key_out = <<>>

\* the side files merge_addendum_local.py writes next to the merged CSV
SideFiles == {"changes_metadata", "skipped_changes", "applied_changes"}

NoLocalRun == [kind |-> "none", skipped |-> FALSE, applied |-> FALSE]

LocalIdle ==
    /\ local_runs = 0
    /\ side_files = [f \in SideFiles |-> 0]
    /\ local_last = NoLocalRun

(***************************************************************************)
(* deduplicate_with_salary_resolution as a function of its argument        *)
(***************************************************************************)

InitDedupe ==
    /\ MergeIdle
    /\ ValidateIdle
    /\ CloudIdle
    /\ TextIdle
    /\ LocalIdle
    /\ df_in \in SeqsUpTo(DedupeRows, MaxRows)
    /\ df_out = NoFrame
    /\ df_stats = NoStats
    /\ df_raised = FALSE
    /\ df_out2 = NoFrame
    /\ dd = 0
    /\ tie_order \in TieOrders
    /\ script \in {"merge_addendum", "merge_addendum_local"}

\* merge_addendum.py: df_out, df_stats = deduplicate_with_salary_resolution(df_in)
Dedupe ==
    /\ script = "merge_addendum"
    /\ dd = 0
    /\ \E o \in {deduplicate_with_salary_resolution(df_in)} :
        /\ df_out' = o.df
        /\ df_stats' = o.stats
    /\ df_raised' = FALSE
    /\ dd' = 1
    /\ UNCHANGED <<df_in, df_out2, tie_order, script>>
    /\ UNCHANGED <<mergeVars, validateVars, cloudVars, textVars, localVars>>

\* df_out2, _ = deduplicate_with_salary_resolution(df_out)
DedupeAgain ==
    /\ script = "merge_addendum"
    /\ dd = 1
    /\ df_out2' = deduplicate_with_salary_resolution(df_out).df
    /\ dd' = 2
    /\ UNCHANGED <<df_in, df_out, df_stats, df_raised, tie_order, script>>
    /\ UNCHANGED <<mergeVars, validateVars, cloudVars, textVars, localVars>>

\* merge_addendum_local.py: df_out, df_stats = deduplicate_with_salary_resolution(df_in)
DedupeLocal ==
    /\ script = "merge_addendum_local"
    /\ dd = 0
    /\ \E o \in {deduplicate_with_salary_resolution_local(df_in)} :
        /\ df_out' = o.df
        /\ df_stats' = o.stats
        /\ df_raised' = o.raised
    /\ dd' = 1
    /\ UNCHANGED <<df_in, df_out2, tie_order, script>>
    /\ UNCHANGED <<mergeVars, validateVars, cloudVars, textVars, localVars>>

NextDedupe == Dedupe \/ DedupeAgain \/ DedupeLocal

SpecDedupe == InitDedupe /\ [][NextDedupe]_vars

\* frames of one group in which salary_paid or taxable_benefits may be
\* missing or text that is no number
BadNumberRows ==
    {Row(S1, A, 2023, sal, ben) :
        sal \in {Num(1), NumNaN, NumBad},
        ben \in {Num(n) : n \in 0..MaxBenefits} \cup {NumNaN, NumBad}}

InitBadNumbers ==
    /\ MergeIdle
    /\ ValidateIdle
    /\ CloudIdle
    /\ TextIdle
    /\ LocalIdle
    /\ df_in \in SeqsUpTo(BadNumberRows, MaxRows)
    /\ df_out = NoFrame
    /\ df_stats = NoStats
    /\ df_raised = FALSE
    /\ df_out2 = NoFrame
    /\ dd = 0
    /\ tie_order \in TieOrders
    /\ script \in {"merge_addendum", "merge_addendum_local"}

SpecBadNumbers == InitBadNumbers /\ [][NextDedupe]_vars

(***************************************************************************)
(* Claims about deduplicate_with_salary_resolution (SpecDedupe)            *)
(***************************************************************************)

SameRecords(df1, df2) == Rows(df1) = Rows(df2) /\ Len(df1) = Len(df2)

\* two rows of df agree on the grouping fields and on total compensation
\* and differ in another field
HasTie(df) ==
    \E i, j \in 1..Len(df) :
        /\ df[i] # df[j]
        /\ group_cols(df[i]) = group_cols(df[j])
        /\ total_comp(df[i]) = total_comp(df[j])

\* C5: dedupe applied to its own output returns the same records, row
\* order ignored, ties and missing fields included.
C5_DedupIdempotent == dd = 2 => SameRecords(df_out2, df_out)

C5_Witness ==
    /\ dd = 2
    /\ HasTie(df_in)
    /\ \E r \in Rows(df_in) : r.sector = NaN \/ r.salary_paid = NumNaN
    /\ Len(df_out) < Len(drop_duplicates(df_in))

\* C6: the record kept for a group has total compensation at least that
\* of every input record agreeing with it on the grouping fields.
SameGroup(r, m) ==
    IF script = "merge_addendum" THEN group_cols(m) = group_cols(r)
    ELSE group_cols_local(m) = group_cols_local(r)

C6_KeepsBestPaid ==
    dd >= 1 =>
        \A r \in Rows(df_out) : \A m \in Rows(df_in) :
            SameGroup(r, m) => total_comp(r) >= total_comp(m)

\* C7: the output holds exactly one record for each combination of
\* grouping-field values of the input, missing values included.
C7_OneRecordPerGroup ==
    script = "merge_addendum" /\ dd >= 1 =>
        /\ \A i, j \in 1..Len(df_out) :
              group_cols(df_out[i]) = group_cols(df_out[j]) => i = j
        /\ {group_cols(r) : r \in Rows(df_out)} = {group_cols(r) : r \in Rows(df_in)}

\* C11: of the members of a group that tie on the highest total
\* compensation, dedupe keeps the one that comes first in the input.
C11_TieKeepsFirstInInput ==
    (script = "merge_addendum" /\ dd >= 1) =>
        \A j \in 1..Len(df_in) :
            (/\ df_in[j] \in Rows(df_out)
             /\ ~HasNaGroupCol(df_in[j])
             /\ \A k \in 1..(j - 1) : df_in[k] # df_in[j]) =>
                \A i \in 1..(j - 1) :
                    ~(/\ group_cols(df_in[i]) = group_cols(df_in[j])
                      /\ total_comp(df_in[i]) = total_comp(df_in[j]))

HasBadNumber(df) ==
    \E r \in Rows(df) : r.salary_paid.t # "num" \/ r.taxable_benefits.t # "num"

\* C12: on a frame with missing or non-numeric salary_paid or
\* taxable_benefits dedupe returns normally and the record it keeps for a
\* group has the highest total, a bad value counted as 0.
C12_BadNumbersCountAsZero ==
    (dd >= 1 /\ HasBadNumber(df_in)) =>
        /\ ~df_raised
        /\ \A r \in Rows(df_out) : \A m \in Rows(df_in) :
              SameGroup(r, m) => total_comp(r) >= total_comp(m)

(***************************************************************************)
(* The merge command                                                       *)
(***************************************************************************)

\* before the first run: nothing computed, nothing written
RunStart ==
    /\ pc = "start"
    /\ run = 0
    /\ salary_dedup = NoFrame
    /\ to_add = NoFrame
    /\ to_delete = NoFrame
    /\ to_change = NoFrame
    /\ skipped_changes = NoFrame
    /\ needed_changes = NoFrame
    /\ changes_metadata = NoMetadata
    /\ merged_file = NoFrame
    /\ merged_written = FALSE
    /\ DedupeIdle
    /\ ValidateIdle
    /\ CloudIdle
    /\ TextIdle
    /\ LocalIdle

\* the addendum file is missing, is empty, or has no status column
AddendumWithoutStatus ==
    \/ /\ addendum_exists = FALSE
       /\ addendum_header = "none"
       /\ addendum_file = NoFrame
    \/ /\ addendum_exists = TRUE
       /\ addendum_header = "none"
       /\ addendum_file = NoFrame
    \/ /\ addendum_exists = TRUE
       /\ addendum_header = "no_status"
       /\ addendum_file \in SeqsUpTo(NoStatusFileRows, 1)

Init ==
    /\ RunStart
    /\ salary_missing = ""
    /\ addendum_missing = ""
    /\ salary_file \in SeqsUpTo(BaseFileRows, MaxBase)
    /\ \/ AddendumWithoutStatus
       \/ /\ addendum_exists = TRUE
          /\ addendum_header = "status"
          /\ addendum_file \in SeqsUpTo(AddendumFileRows, MaxAddendum)

\* python merge_addendum.py --salary salary_file --addendum addendum_file
Merge ==
    /\ pc = "start"
    /\ \E r \in {merge_addendum_columns(salary_file, salary_missing, addendum_exists,
                                        addendum_header, addendum_file,
                                        addendum_missing)} :
        /\ salary_dedup' = r.salary_dedup
        /\ to_add' = r.to_add
        /\ to_delete' = r.to_delete
        /\ to_change' = r.to_change
        /\ skipped_changes' = r.skipped_changes
        /\ needed_changes' = r.needed_changes
        /\ changes_metadata' = r.changes_metadata
        /\ IF r.raised
           THEN /\ pc' = "failed"
                /\ UNCHANGED <<merged_file, merged_written>>
           ELSE /\ pc' = "done"
                /\ merged_file' = to_csv(r.merged)
                /\ merged_written' = TRUE
    /\ run' = run + 1
    /\ UNCHANGED <<salary_file, addendum_exists, addendum_header, addendum_file,
                   salary_missing, addendum_missing>>
    /\ UNCHANGED <<dedupeVars, validateVars, cloudVars, textVars, localVars>>

\* the merged file of the first run becomes the salary file of a second
\* run with the same addendum
Reapply ==
    /\ pc = "done"
    /\ run = 1
    /\ salary_file' = merged_file
    /\ salary_missing' = IF Len(to_add) + Len(needed_changes) > 0
                         THEN "" ELSE salary_missing
    /\ pc' = "start"
    /\ merged_written' = FALSE
    /\ UNCHANGED <<run, addendum_exists, addendum_header, addendum_file,
                   addendum_missing,
                   salary_dedup, to_add, to_delete, to_change, skipped_changes,
                   needed_changes, changes_metadata, merged_file>>
    /\ UNCHANGED <<dedupeVars, validateVars, cloudVars, textVars, localVars>>

Next == Merge \/ Reapply

Spec == Init /\ [][Next]_vars

\* files of which one may lack a required column
RequiredCols == GroupColNames \cup NumColNames

\* the rows of a file without column col: a text or numeric cell of that
\* column is missing in every row
WithoutCol(file, col) ==
    [i \in 1..Len(file) |->
        [c \in DOMAIN file[i] |->
            IF c # col \/ c = "calendar_year" THEN file[i][c]
            ELSE IF c \in NumColNames THEN NumNaN ELSE Empty]]

SchemaBaseRows ==
    {Row(S1, A, 2023, Num(1), Num(0)), Row(S1, A, 2023, Num(1), Num(1)),
     Row(S2, A, 2023, Num(1), Num(0))}

SchemaAddendumRows ==
    {AddendumRow(S1, A2, 2023, Num(1), Num(1), st) : st \in {Addition, Changed, Deletion}}

InitSchema ==
    /\ RunStart
    /\ salary_missing \in RequiredCols \cup {""}
    /\ addendum_missing \in RequiredCols \cup {""}
    /\ \E f \in SeqsUpTo(SchemaBaseRows, MaxBase) :
          salary_file = WithoutCol(f, salary_missing)
    /\ \/ /\ AddendumWithoutStatus
          /\ addendum_exists \/ addendum_missing = ""
       \/ /\ addendum_exists = TRUE
          /\ addendum_header = "status"
          /\ \E f \in SeqsUpTo(SchemaAddendumRows, 1) :
                addendum_file = WithoutCol(f, addendum_missing)

SpecSchema == InitSchema /\ [][Next]_vars

(***************************************************************************)
(* Claims about merge_addendum (Spec)                                      *)
(***************************************************************************)

\* the merged CSV as a later reader loads it
merged == read_csv(merged_file)

WithKey(df, key) == {r \in Rows(df) : match_key(r) = key}

\* C1: merging the merged output again with the same addendum yields the
\* same records as the first merge.
C1_ReconcileIdempotent ==
    (run = 2 /\ pc \in {"done", "failed"}) =>
        (pc = "done" /\ Rows(merged_file) = Rows(salary_file))

\* C2: no merged record has the MatchKey of a to_delete record, whatever
\* else the addendum holds.
C2_DeletionComplete ==
    pc = "done" =>
        \A d \in Rows(to_delete) : WithKey(merged, match_key(d)) = {}

\* C3: exactly one merged record has the MatchKey of each to_add record.
C3_AdditionExactlyOnce ==
    pc = "done" =>
        \A a \in Rows(to_add) :
            Cardinality({i \in 1..Len(merged) :
                            match_key(merged[i]) = match_key(a)}) = 1

\* C4: no two merged records have the same MatchKey.
C4_NoDuplicateMatchKeys ==
    pc = "done" =>
        \A i, j \in 1..Len(merged) :
            match_key(merged[i]) = match_key(merged[j]) => i = j

\* C8: a change record whose MatchKey some base records share, none of
\* them equal to it on the compared fields, is in the merged output exactly
\* once, none of those base records is, and it is counted as applied.
C8_ChangeReplaces ==
    pc = "done" =>
        \A c \in Rows(to_change) :
            LET matches == WithKey(salary_dedup, match_key(c))
            IN  (matches # {} /\ \A b \in matches : ~compare_rows(c, b)) =>
                    /\ Cardinality({i \in 1..Len(merged) :
                                       merged[i] = drop_status(c)}) = 1
                    /\ \A b \in matches : b \notin Rows(merged)
                    /\ c \in Rows(needed_changes)

\* C9: a change record equal on the compared fields to a base record with
\* its MatchKey is counted as skipped, not inserted, and the merged records
\* with that MatchKey are the deduplicated base records with it.
C9_ChangeSkipped ==
    pc = "done" =>
        \A c \in Rows(to_change) :
            LET matches == WithKey(salary_dedup, match_key(c))
            IN  (\E b \in matches : compare_rows(c, b)) =>
                    /\ c \in Rows(skipped_changes)
                    /\ c \notin Rows(needed_changes)
                    /\ WithKey(merged, match_key(c)) = matches

\* the addendum is absent, holds no records, or has no status column
PassThroughInput ==
    ~addendum_exists \/ addendum_header # "status" \/ addendum_file = NoFrame

MergedIsDedupedBase ==
    SameRecords(merged, deduplicate_with_salary_resolution(read_csv(salary_file)).df)

\* C10: in the pass-through mode the run does not fail and the merged
\* output is dedupe(base).
C10_PassThrough ==
    (run = 1 /\ pc \in {"done", "failed"} /\ PassThroughInput) =>
        (pc = "done" /\ MergedIsDedupedBase)

\* a required column is missing from the salary file or from the addendum
\* file that is read
ColumnMissing ==
    \/ salary_missing # ""
    \/ addendum_exists /\ addendum_header # "none" /\ addendum_missing # ""

\* C13: with a required column missing from the base or the addendum the
\* run fails and writes no merged file.
C13_SchemaErrorFatal ==
    (run = 1 /\ pc \in {"done", "failed"} /\ ColumnMissing) =>
        (pc = "failed" /\ ~merged_written)

(***************************************************************************)
(* validate_merge.py                                                       *)
(***************************************************************************)

\* the strings pd.read_csv(file_path) reads as NaN by default
DefaultNa == {Empty, <<"n", "a", "n">>, <<"N", "a", "N">>, <<"N", "A">>}

\* load_csv_with_encoding: pd.read_csv(file_path, encoding=encoding)
read_csv_default(file) ==
    [i \in 1..Len(file) |->
        [c \in DOMAIN file[i] |->
            IF c \in TextCols /\ file[i][c] \in DefaultNa THEN NaN ELSE file[i][c]]]

\* the match_key of validate_merge: the fields as text, not normalized
validate_match_key(row) ==
    <<Str(row.first_name), Str(row.last_name), Str(row.employer),
      Str(row.job_title), row.calendar_year>>

\* set(df["_match_key"])
match_keys(df) == {validate_match_key(df[i]) : i \in 1..Len(df)}

\* df[df["_match_key"].isin(keys)]
isin(df, keys) ==
    Filter(df, {i \in 1..Len(df) : validate_match_key(df[i]) \in keys})

\* a final verdict that leaves the unexpected statuses out
has_errors_without_status(deletions, missing, unexpected, duplicates, differ) ==
    \/ Len(deletions) > 0
    \/ Len(missing) > 0
    \/ Len(duplicates) > 0
    \/ differ

\* lines 149-158
has_errors(deletions, missing, unexpected, duplicates, differ) ==
    \/ Len(deletions) > 0
    \/ Len(missing) > 0
    \/ Len(unexpected) > 0
    \/ Len(duplicates) > 0
    \/ differ

\* lines 64-161, once the three files are loaded and the addendum has a
\* status column
validate_report(addendum_df, merged_df, metadata_exists, metadata, skipped_exists, skipped) ==
    LET v_to_delete == split_by_status(addendum_df, Deletion)
        v_deletions == isin(merged_df, match_keys(v_to_delete))
        v_to_change == split_by_status(addendum_df, Changed)
        change_keys ==
            IF skipped_exists
            THEN match_keys(v_to_change) \ match_keys(read_csv_default(skipped))
            ELSE match_keys(v_to_change)
        v_changes == isin(merged_df, change_keys)
        v_to_add == split_by_status(addendum_df, Addition)
        v_missing == Filter(v_to_add, {i \in 1..Len(v_to_add) :
                         validate_match_key(v_to_add[i]) \notin match_keys(merged_df)})
        v_unexpected == Filter(addendum_df, {i \in 1..Len(addendum_df) :
                            /\ ~StatusIs(addendum_df[i], Addition)
                            /\ ~StatusIs(addendum_df[i], Deletion)
                            /\ ~StatusIs(addendum_df[i], Changed)})
        v_duplicates == Filter(merged_df, {i \in 1..Len(merged_df) :
                            \E k \in 1..Len(merged_df) :
                                /\ k # i
                                /\ validate_match_key(merged_df[k])
                                       = validate_match_key(merged_df[i])})
        differ == metadata_exists /\ Len(v_changes) # metadata.changes_applied
    IN  [raised |-> FALSE,
         deletions_still_exist |-> v_deletions,
         changes_in_merged |-> v_changes,
         additions_missing |-> v_missing,
         unexpected_status |-> v_unexpected,
         duplicate_keys |-> v_duplicates,
         changes_compared |-> metadata_exists,
         changes_differ |-> differ,
         has_errors |-> has_errors(v_deletions, v_missing, v_unexpected,
                                   v_duplicates, differ)]

\* validate_merge(base_path, addendum_path, merged_path): a missing or
\* empty addendum file makes pd.read_csv raise, a missing status column
\* raises ValueError (line 62), a status column of empty cells makes .str
\* raise (line 65)
validate_merge(exists, header, addendum, merged_rows, metadata_exists, metadata, skipped_exists, skipped) ==
    IF \/ ~exists \/ read_csv_raises(header) \/ header # "status"
       \/ str_raises(read_csv_default(addendum))
    THEN [NoReport EXCEPT !.raised = TRUE]
    ELSE validate_report(read_csv_default(addendum), read_csv_default(merged_rows),
                         metadata_exists, metadata, skipped_exists, skipped)

\* python validate_merge.py --base salary_file --addendum addendum_file
\*     --merged merged_file
\* merge_addendum.py writes neither changes_metadata.json nor
\* skipped_changes.csv into the directory of the merged file
Validate ==
    /\ pc = "done"
    /\ \E r \in {validate_merge(addendum_exists, addendum_header, addendum_file,
                                merged_file, FALSE, NoMetadata, FALSE, NoFrame)} :
        /\ report' = r
        /\ exit_status' = IF r.raised \/ r.has_errors THEN 1 ELSE 0
    /\ pc' = "validated"
    /\ UNCHANGED <<run, salary_file, addendum_exists, addendum_header,
                   addendum_file, salary_missing, addendum_missing,
                   salary_dedup, to_add, to_delete, to_change, skipped_changes,
                   needed_changes, changes_metadata, merged_file, merged_written>>
    /\ UNCHANGED <<dedupeVars, cloudVars, textVars, localVars>>

(***************************************************************************)
(* merge_addendum_gcs.py and validate_merge_gcs.py on the bucket           *)
(***************************************************************************)

\* line 309: the merged blob of the year exists already
GcsSkip ==
    /\ gcs_pc = "loop"
    /\ gcs_year <= Len(matched_years)
    /\ matched_years[gcs_year] \in bucket_merged
    /\ gcs_year' = gcs_year + 1
    /\ UNCHANGED <<salary_years, addendum_years, bucket_merged, uploaded, merge_result,
                   validation_result,
                   gcs_pc, output_dir, val_pc, merged_files, failed_validations,
                   val_exit>>
    /\ UNCHANGED <<mergeVars, dedupeVars, validateVars, textVars, localVars>>

\* lines 313-317: an exception of merge_addendum is not caught
GcsMerge ==
    /\ gcs_pc = "loop"
    /\ gcs_year <= Len(matched_years)
    /\ matched_years[gcs_year] \notin bucket_merged
    /\ IF merge_result[matched_years[gcs_year]] = "ok"
       THEN /\ output_dir' = output_dir \cup {matched_years[gcs_year]}
            /\ gcs_pc' = "merged"
       ELSE /\ gcs_pc' = "crashed"
            /\ UNCHANGED output_dir
    /\ UNCHANGED <<salary_years, addendum_years, bucket_merged, uploaded, merge_result,
                   validation_result,
                   gcs_year, val_pc, merged_files, failed_validations, val_exit>>
    /\ UNCHANGED <<mergeVars, dedupeVars, validateVars, textVars, localVars>>

\* lines 319-321
GcsUpload ==
    /\ gcs_pc = "merged"
    /\ bucket_merged' = bucket_merged \cup {matched_years[gcs_year]}
    /\ uploaded' = uploaded \cup {matched_years[gcs_year]}
    /\ gcs_year' = gcs_year + 1
    /\ gcs_pc' = "loop"
    /\ UNCHANGED <<salary_years, addendum_years, merge_result,
                   validation_result, output_dir, val_pc,
                   merged_files, failed_validations, val_exit>>
    /\ UNCHANGED <<mergeVars, dedupeVars, validateVars, textVars, localVars>>

\* the loop of line 302 is over
GcsExit ==
    /\ gcs_pc = "loop"
    /\ gcs_year > Len(matched_years)
    /\ gcs_pc' = "exited"
    /\ UNCHANGED <<salary_years, addendum_years, bucket_merged, uploaded, merge_result,
                   validation_result,
                   gcs_year, output_dir, val_pc, merged_files,
                   failed_validations, val_exit>>
    /\ UNCHANGED <<mergeVars, dedupeVars, validateVars, textVars, localVars>>

\* list_merged_files: the merged blobs, in the order of their names
list_merged_files(blobs) ==
    Filter(all_years, {i \in 1..MaxYears : all_years[i] \in blobs})

\* python validate_merge_gcs.py, run when the merge process has ended
\* (lines 31-32)
ValidateAllStart ==
    /\ val_pc = "idle"
    /\ gcs_pc \in {"exited", "crashed"}
    /\ merged_files' = list_merged_files(bucket_merged)
    /\ failed_validations' = <<>>
    /\ val_pc' = "loop"
    /\ UNCHANGED <<salary_years, addendum_years, bucket_merged, uploaded, merge_result,
                   validation_result,
                   gcs_pc, gcs_year, output_dir, val_exit>>
    /\ UNCHANGED <<mergeVars, dedupeVars, validateVars, textVars, localVars>>

\* one iteration of the loop of lines 34-50
ValidateYear ==
    /\ val_pc = "loop"
    /\ merged_files # <<>>
    /\ failed_validations' =
           IF validation_result[Head(merged_files)] = "pass"
           THEN failed_validations
           ELSE Append(failed_validations, Head(merged_files))
    /\ merged_files' = Tail(merged_files)
    /\ UNCHANGED <<salary_years, addendum_years, bucket_merged, uploaded, merge_result,
                   validation_result,
                   gcs_pc, gcs_year, output_dir, val_pc, val_exit>>
    /\ UNCHANGED <<mergeVars, dedupeVars, validateVars, textVars, localVars>>

\* lines 52-59 and 220-221: the summary is printed and the process ends
ValidateAllExit ==
    /\ val_pc = "loop"
    /\ merged_files = <<>>
    /\ val_pc' = "exited"
    /\ val_exit' = 0
    /\ UNCHANGED <<salary_years, addendum_years, bucket_merged, uploaded, merge_result,
                   validation_result,
                   gcs_pc, gcs_year, output_dir, merged_files,
                   failed_validations>>
    /\ UNCHANGED <<mergeVars, dedupeVars, validateVars, textVars, localVars>>

InitLocalRun ==
    /\ RunStart
    /\ salary_missing = ""
    /\ addendum_missing = ""
    /\ salary_file \in SeqsUpTo(BaseFileRows, MaxValidateBase)
    /\ \/ AddendumWithoutStatus
       \/ /\ addendum_exists = TRUE
          /\ addendum_header = "status"
          /\ addendum_file \in SeqsUpTo(AddendumFileRows, MaxAddendum)

InitBucketRun ==
    /\ MergeIdle
    /\ DedupeIdle
    /\ ValidateIdle
    /\ TextIdle
    /\ LocalIdle
    /\ salary_years = Years
    /\ addendum_years = Years
    /\ bucket_merged \in SUBSET Years
    /\ uploaded = {}
    /\ merge_result \in [Years -> {"ok", "raise"}]
    /\ validation_result \in [Years -> {"pass", "fail", "raise"}]
    /\ gcs_pc = "loop"
    /\ gcs_year = 1
    /\ output_dir = {}
    /\ val_pc = "idle"
    /\ merged_files = <<>>
    /\ failed_validations = <<>>
    /\ val_exit = -1

InitValidate == InitLocalRun \/ InitBucketRun

NextValidate ==
    \/ Merge
    \/ Validate
    \/ GcsSkip
    \/ GcsMerge
    \/ GcsUpload
    \/ GcsExit
    \/ ValidateAllStart
    \/ ValidateYear
    \/ ValidateAllExit

SpecValidate == InitValidate /\ [][NextValidate]_vars

(***************************************************************************)
(* Claims on the validators                                                *)
(***************************************************************************)

MergedKeys == {match_key(m) : m \in Rows(merged)}

\* C14: the merged output of a year is uploaded only once validation of
\* that year has completed, and once both processes have ended no year
\* whose merge or validation raised has an output uploaded by the run.
C14_OutputAfterAllStages ==
    \A y \in uploaded :
        /\ val_pc # "idle" /\ y \notin Rows(merged_files)
        /\ val_pc = "exited" =>
               merge_result[y] = "ok" /\ validation_result[y] # "raise"

\* C15: a validation that found an inconsistency ends its process with a
\* non-zero exit status, in validate_merge.py and in validate_merge_gcs.py.
C15_FailureReachesExitStatus ==
    /\ (pc = "validated" /\ report.has_errors) => exit_status > 0
    /\ (val_pc = "exited" /\ failed_validations # <<>>) => val_exit > 0

\* C16: the validator reports surviving deletions exactly when merged holds
\* a record whose MatchKey is the MatchKey of a deletion of the reconciler.
C16_DeletionCheck ==
    pc = "validated" =>
        ((\E d \in Rows(to_delete) : match_key(d) \in MergedKeys)
            <=> (~report.raised /\ Len(report.deletions_still_exist) > 0))

\* C17: the additions reported missing are exactly the additions of the
\* reconciler (after its null-drop) whose MatchKey is not in merged.
C17_AdditionCheck ==
    pc = "validated" =>
        Rows(drop_status_col(report.additions_missing))
            = {drop_status(a) : a \in {x \in Rows(to_add) : match_key(x) \notin MergedKeys}}

\* C18: the validator reports a change-count violation exactly when the
\* number of MatchKeys of applied changes present in merged differs from
\* changes_applied.
C18_ChangeCheck ==
    (pc = "validated" /\ ~report.raised) =>
        (report.changes_differ
            <=> Cardinality({match_key(c) : c \in Rows(needed_changes)} \cap MergedKeys)
                    # changes_metadata.changes_applied)

(***************************************************************************)
(* normalize_text and match_key as functions of their arguments            *)
(***************************************************************************)

Chars == {"a", " ", "TAB", "NUL", "\"", "LSQUO", "NDASH"}

Texts == SeqsUpTo(Chars, MaxLen) \cup {NaN}

\* values of a text field of a row: null, the text "nan", a name, the
\* empty string
FieldValues == {NaN, <<"n", "a", "n">>, A, Empty}

\* rows of a frame that has every column, and of frames that lack the
\* first_name or the last_name column
KeyRows ==
    LET full == {[Row(S1, f, 2023, Num(1), Num(0)) EXCEPT !.last_name = l] :
                    f \in FieldValues, l \in FieldValues}
        without(r, col) == [c \in (DOMAIN r) \ {col} |-> r[c]]
    IN  full \cup {without(r, "first_name") : r \in full}
             \cup {without(r, "last_name") : r \in full}

InitText ==
    /\ MergeIdle
    /\ DedupeIdle
    /\ ValidateIdle
    /\ CloudIdle
    /\ LocalIdle
    /\ text_out = <<>>
    /\ text_out2 = <<>>
    /\ key_out = <<>>
    /\ \/ /\ text_pc = "text"
          /\ text_in \in Texts
          /\ key_rows = <<>>
       \/ /\ text_pc = "rows"
          /\ text_in = <<>>
          /\ key_rows \in [1..2 -> KeyRows]

\* normalize_text(text_in)
Normalize ==
    /\ text_pc = "text"
    /\ text_out' = normalize_text(text_in)
    /\ text_pc' = "once"
    /\ UNCHANGED <<text_in, text_out2, key_rows, key_out>>
    /\ UNCHANGED <<mergeVars, dedupeVars, validateVars, cloudVars, localVars>>

\* normalize_text(normalize_text(text_in))
NormalizeAgain ==
    /\ text_pc = "once"
    /\ text_out2' = normalize_text(text_out)
    /\ text_pc' = "twice"
    /\ UNCHANGED <<text_in, text_out, key_rows, key_out>>
    /\ UNCHANGED <<mergeVars, dedupeVars, validateVars, cloudVars, localVars>>

\* df.apply(match_key, axis=1) on the two rows
MatchKeys ==
    /\ text_pc = "rows"
    /\ key_out' = [i \in 1..2 |-> match_key(key_rows[i])]
    /\ text_pc' = "keys"
    /\ UNCHANGED <<text_in, text_out, text_out2, key_rows>>
    /\ UNCHANGED <<mergeVars, dedupeVars, validateVars, cloudVars, localVars>>

NextText == Normalize \/ NormalizeAgain \/ MatchKeys

SpecText == InitText /\ [][NextText]_vars

\* C19: normalizing a normalized text changes nothing.
C19_NormalizeIdempotent ==
    text_pc = "twice" => text_out2 = text_out

KeyFields == <<"first_name", "last_name", "employer", "job_title">>

Missing(row, col) == col \notin DOMAIN row \/ row[col] = NaN

\* C20: an absent or null text field gives the key component of the empty
\* string, and a row with such a field has another MatchKey than a row
\* whose field holds non-empty text.
C20_MissingFieldIsEmpty ==
    text_pc = "keys" =>
        \A i \in 1..2 : \A f \in 1..4 :
            Missing(key_rows[i], KeyFields[f]) =>
                /\ key_out[i][f] = normalize_text(Empty)
                /\ \A k \in 1..2 :
                       (/\ ~Missing(key_rows[k], KeyFields[f])
                        /\ key_rows[k][KeyFields[f]] # Empty)
                           => key_out[k] # key_out[i]

(***************************************************************************)
(* One merge and its validation on small files                             *)
(***************************************************************************)

ReconBaseRows ==
    {Row(S1, A, 2023, Num(1), Num(0)), Row(S1, A, 2023, Num(1), Num(1)),
     Row(S1, B, 2023, Num(1), Num(0)), Row(Empty, A, 2023, Num(1), Num(0))}

\* canonical statuses, a synonym in another case with a trailing space, a
\* status the table does not hold, and rows with an empty numeric field
ReconAddendumRows ==
    {AddendumRow(S1, A, 2023, Num(1), Num(0), Changed),
     AddendumRow(S1, A, 2023, Num(1), Num(1), Changed),
     AddendumRow(S2, A, 2023, Num(1), Num(1), Changed),
     AddendumRow(S1, B, 2023, Num(1), Num(1), Changed),
     AddendumRow(S1, A, 2023, Num(1), Num(0), Addition),
     AddendumRow(S1, A, 2023, Num(1), Num(0), Deletion),
     AddendumRow(S1, A, 2023, Num(1), Num(0), <<"D", "e", "l", "e", "t", "e", "d", " ">>),
     AddendumRow(S1, A, 2023, Num(1), Num(1), <<"x">>),
     AddendumRow(S1, A, 2023, Num(1), Num(0), Empty),
     AddendumRow(S1, A, 2023, Num(1), NumNaN, Deletion),
     AddendumRow(S1, A, 2023, NumNaN, Num(1), Addition)}

InitReconcile ==
    /\ RunStart
    /\ salary_missing = ""
    /\ addendum_missing = ""
    /\ salary_file \in SeqsUpTo(ReconBaseRows, MaxReconBase)
    /\ addendum_exists = TRUE
    /\ addendum_header = "status"
    /\ addendum_file \in SeqsUpTo(ReconAddendumRows, MaxReconAddendum)

NextReconcile == Merge \/ Validate

SpecReconcile == InitReconcile /\ [][NextReconcile]_vars

\* C21: every change record is either skipped or applied, never both; one
\* with no base record of its MatchKey is applied; the two counts add up to
\* the number of change records.
C21_ChangesClassifiedOnce ==
    run >= 1 =>
        /\ changes_metadata.total_changes_requested = Len(to_change)
        /\ changes_metadata.changes_skipped = Len(skipped_changes)
        /\ changes_metadata.changes_applied = Len(needed_changes)
        /\ changes_metadata.changes_skipped + changes_metadata.changes_applied
               = changes_metadata.total_changes_requested
        /\ Rows(skipped_changes) \cap Rows(needed_changes) = {}
        /\ Rows(skipped_changes) \cup Rows(needed_changes) = Rows(to_change)
        /\ \A c \in Rows(to_change) :
               (\A b \in Rows(salary_dedup) : match_key(b) # match_key(c))
                   => c \in Rows(needed_changes)

\* a run that skipped one change and applied another that matches no base
\* record
C21_Witness ==
    /\ run >= 1
    /\ Len(skipped_changes) >= 1
    /\ \E c \in Rows(needed_changes) :
           \A b \in Rows(salary_dedup) : match_key(b) # match_key(c)

Resolved(status) ==
    status # NaN /\ normalize_status_col(status) \in {Addition, Changed, Deletion}

Partitions == Rows(to_add) \cup Rows(to_delete) \cup Rows(to_change)

\* C22: a status resolves the same in any letter case and with added
\* whitespace, to at most one operation; a record whose status does not
\* resolve is in no partition and does not make the run fail.
C22_StatusResolution ==
    (run >= 1 /\ addendum_exists /\ addendum_header = "status") =>
        LET addendum_df == read_csv(addendum_file)
            resolved == Filter(addendum_file,
                               {i \in 1..Len(addendum_df) : Resolved(addendum_df[i].status)})
        IN  /\ \A r \in Rows(addendum_df) :
                   r.status # NaN =>
                       /\ normalize_status_col(Lower(r.status)) = normalize_status_col(r.status)
                       /\ normalize_status_col(<<" ", " ">> \o r.status \o <<" ">>)
                              = normalize_status_col(r.status)
            /\ Rows(to_add) \cap Rows(to_delete) = {}
            /\ Rows(to_add) \cap Rows(to_change) = {}
            /\ Rows(to_delete) \cap Rows(to_change) = {}
            /\ \A r \in Rows(addendum_df) :
                   ~Resolved(r.status) =>
                       \A p \in Partitions :
                           drop_status(p) = drop_status(r) =>
                               \E q \in Rows(addendum_df) :
                                   /\ Resolved(q.status)
                                   /\ drop_status(q) = drop_status(r)
            /\ pc = "failed" =>
                   merge_addendum_columns(salary_file, salary_missing, TRUE, "status",
                                          resolved, addendum_missing).raised

HasNull(r) ==
    \/ r.sector = NaN \/ r.first_name = NaN \/ r.last_name = NaN
    \/ r.employer = NaN \/ r.job_title = NaN
    \/ r.salary_paid = NumNaN \/ r.taxable_benefits = NumNaN

\* C23: no record with a null in one of the seven columns is in to_add,
\* to_delete or to_change.
C23_NullDrop ==
    run >= 1 => \A p \in Partitions : ~HasNull(p)

\* a deletion row with a null taxable_benefits took part in a run that left
\* the base record of its MatchKey in merged
C23_Witness ==
    /\ run >= 1
    /\ pc = "done"
    /\ \E i \in 1..Len(addendum_file) :
           /\ addendum_file[i].status = Deletion
           /\ addendum_file[i].taxable_benefits = NumNaN
           /\ match_key(addendum_file[i]) \in {match_key(m) : m \in Rows(merged)}
           /\ match_key(addendum_file[i]) \in {match_key(b) : b \in Rows(salary_dedup)}

\* C24: exact_duplicates_removed is the number of input records minus the
\* number of distinct records; non_exact_duplicates_resolved is the number
\* of grouping keys that have more than one distinct record.
C24_DedupReportCounts ==
    (script = "merge_addendum" /\ dd >= 1) =>
        /\ df_stats.exact_duplicates_removed = Len(df_in) - Cardinality(Rows(df_in))
        /\ df_stats.non_exact_duplicates_resolved
               = Cardinality({g \in {group_cols(r) : r \in Rows(df_in)} :
                                 Cardinality({r \in Rows(df_in) : group_cols(r) = g}) > 1})

\* salary files with records that lack a sector, next to records that get
\* a second member of their group from the addendum
FrameBaseRows ==
    {Row(Empty, B, 2023, Num(1), Num(0)), Row(Empty, B, 2023, Num(1), Num(1)),
     Row(S1, A, 2023, Num(1), Num(0)), Row(S2, A, 2023, Num(1), Num(0))}

FrameAddendumRows ==
    {AddendumRow(S1, A, 2023, Num(1), Num(1), Addition),
     AddendumRow(S1, A, 2023, Num(1), Num(1), Changed),
     AddendumRow(S1, A, 2023, Num(1), Num(0), Deletion),
     AddendumRow(S1, A2, 2023, Num(1), Num(1), Addition)}

InitFrame ==
    /\ RunStart
    /\ salary_missing = ""
    /\ addendum_missing = ""
    /\ salary_file \in SeqsUpTo(FrameBaseRows, MaxFrameBase)
    /\ addendum_exists = TRUE
    /\ addendum_header = "status"
    /\ addendum_file \in SeqsUpTo(FrameAddendumRows, MaxFrameAddendum)

SpecFrame == InitFrame /\ [][NextReconcile]_vars

\* C25: a record of the de-duplicated base whose MatchKey is the MatchKey
\* of no to_delete, to_change or to_add record is in merged, unchanged.
C25_ReconcileFrame ==
    (run = 1 /\ pc = "done") =>
        \A b \in Rows(salary_dedup) :
            (\A p \in Partitions : match_key(p) # match_key(b)) => b \in Rows(merged)

C27_ValidatorAcceptsMerge ==
    (/\ pc = "validated"
     /\ \A r \in Rows(read_csv(addendum_file)) :
            r.status \in {Addition, Changed, Deletion} /\ ~HasNull(r))
        => (~report.raised /\ ~report.has_errors)

\* C28: validation fails whenever an addendum row has a status that,
\* lower-cased, is none of 'addition', 'deletion' and 'changed'.
C28_UnexpectedStatusFails ==
    (/\ pc = "validated"
     /\ \E r \in Rows(read_csv_default(addendum_file)) :
            r.status = NaN \/ Lower(r.status) \notin {Addition, Deletion, Changed})
        => (exit_status = 1 /\ (report.raised \/ report.has_errors))

\* the only thing the validator found is a synonym that the merge applied
C28_Witness ==
    /\ pc = "validated"
    /\ Len(to_delete) = 1
    /\ Len(report.unexpected_status) = 1
    /\ Resolved(report.unexpected_status[1].status)
    /\ report.deletions_still_exist = <<>>
    /\ report.additions_missing = <<>>
    /\ report.duplicate_keys = <<>>
    /\ exit_status = 1

(***************************************************************************)
(* merge_addendum_local.py: the side files of successive runs into one     *)
(* output directory                                                        *)
(***************************************************************************)

\* lines 107-112 and 128-134: the addendum file is absent, or it has no
\* status column; the merged CSV is written and the function returns
MergeLocalPassThrough ==
    /\ local_runs < MaxLocalRuns
    /\ \E kind \in {"absent", "no_status"} :
           local_last' = [kind |-> kind, skipped |-> FALSE, applied |-> FALSE]
    /\ local_runs' = local_runs + 1
    /\ UNCHANGED side_files
    /\ UNCHANGED <<mergeVars, dedupeVars, validateVars, cloudVars, textVars>>

\* lines 136-235: skipped_changes.csv is written when skipped_changes is not
\* empty (180-184), applied_changes.csv when needed_changes is not empty
\* (186-192), changes_metadata.json always (221-223)
MergeLocalReconcile ==
    /\ local_runs < MaxLocalRuns
    /\ \E skipped \in BOOLEAN, applied \in BOOLEAN :
        /\ local_last' = [kind |-> "merged", skipped |-> skipped,
                          applied |-> applied]
        /\ side_files' =
               [f \in SideFiles |->
                   IF \/ f = "changes_metadata"
                      \/ f = "skipped_changes" /\ skipped
                      \/ f = "applied_changes" /\ applied
                   THEN local_runs + 1
                   ELSE side_files[f]]
    /\ local_runs' = local_runs + 1
    /\ UNCHANGED <<mergeVars, dedupeVars, validateVars, cloudVars, textVars>>

InitSideFiles ==
    /\ MergeIdle
    /\ DedupeIdle
    /\ ValidateIdle
    /\ CloudIdle
    /\ TextIdle
    /\ LocalIdle

NextSideFiles == MergeLocalPassThrough \/ MergeLocalReconcile

SpecSideFiles == InitSideFiles /\ [][NextSideFiles]_vars

\* C29: after any sequence of merge runs into one output directory, every
\* side file present in it (changes_metadata.json, skipped_changes.csv,
\* applied_changes.csv) was written by the most recent run; no file of an
\* earlier run is left in place
C29_SideFilesFresh ==
    \A f \in SideFiles : side_files[f] \in {0, local_runs}

(***************************************************************************)
(* merge_addendum_gcs.py: which years the driver merges and uploads        *)
(***************************************************************************)

\* the bucket when python merge_addendum_gcs.py starts: any years may have a
\* salary blob, an addendum blob and a merged blob
InitDriver ==
    /\ MergeIdle
    /\ DedupeIdle
    /\ ValidateIdle
    /\ TextIdle
    /\ LocalIdle
    /\ salary_years \in SUBSET Years
    /\ addendum_years \in SUBSET Years
    /\ bucket_merged \in SUBSET Years
    /\ uploaded = {}
    /\ merge_result \in [Years -> {"ok", "raise"}]
    /\ validation_result = [y \in Years |-> "pass"]
    /\ gcs_pc = "loop"
    /\ gcs_year = 1
    /\ output_dir = {}
    /\ val_pc = "idle"
    /\ merged_files = <<>>
    /\ failed_validations = <<>>
    /\ val_exit = -1

NextDriver == GcsSkip \/ GcsMerge \/ GcsUpload \/ GcsExit

SpecDriver == InitDriver /\ [][NextDriver]_vars

\* C30: the driver writes a merged blob only by its upload; the year of an
\* upload has both a salary blob and an addendum blob, has no merged blob
\* when the upload is made (nothing is overwritten), and merge_addendum has
\* returned for it; a year with a salary blob and no addendum blob gets no
\* merged blob
C30_DriverUploads ==
    [][/\ bucket_merged' \ bucket_merged = uploaded' \ uploaded
       /\ bucket_merged \subseteq bucket_merged'
       /\ \A y \in uploaded' \ uploaded :
              /\ y \in salary_years \cap addendum_years
              /\ y \notin bucket_merged
              /\ y \in output_dir
              /\ merge_result[y] = "ok"
       /\ \A y \in salary_years \ addendum_years :
              y \in bucket_merged' => y \in bucket_merged]_vars

\* the driver has ended: it uploaded a year, skipped a year that had a merged
\* blob or left alone a year without addendum
C30_Witness ==
    /\ gcs_pc = "exited"
    /\ uploaded # {}
    /\ \E y \in Years \ uploaded :
           \/ y \in salary_years \ addendum_years
           \/ y \in salary_years \cap addendum_years \cap bucket_merged

==============================================================================
